---- MODULE Spec2Model ----
(***************************************************************************)
(* Model of flame_utils/io/output.py: convert_results() wraps every raw    *)
(* state of a propagation result into a BeamState; collect_data() extracts *)
(* the requested attributes of every state into arrays, first by direct    *)
(* attribute access and, when that raises, after convert_results().        *)
(***************************************************************************)
EXTENDS Integers, Sequences, FiniteSets, TLC

\* Longest propagation result that is explored.
MaxLen == 2

(***************************************************************************)
(* The external collaborators: raw simulation states and BeamState.        *)
(***************************************************************************)

\* Keyword names a caller may pass; "foo" is outside BeamState's vocabulary.
Names == {"x0", "pos", "foo"}

\* Iteration order of the keyword dictionary (the order of the call).
NameOrder == <<"x0", "pos", "foo">>

\* The attribute vocabulary of BeamState.
Vocab == {"x0", "pos"}

\* What a caller may supply for a keyword ("absent": keyword not passed).
KwVals == {"absent", "None", "True", "False"}

Locs == {"m1", "m2"}

RawIds == {1, 2, 3}

RawStates == {[kind |-> "raw", id |-> i] : i \in RawIds}

\* Raw state 3 is rejected by the BeamState constructor (malformed state).
GoodRawIds == {1, 2}

BeamStates == {[kind |-> "BeamState", id |-> i] : i \in GoodRawIds}

States == RawStates \cup BeamStates

NameIx(k) == CHOOSE n \in 1..Len(NameOrder) : NameOrder[n] = k

\* Attributes a raw state exposes by itself: state 1 exposes "pos", state 2
\* exposes "pos" and "foo", state 3 exposes none.
RawExposes(s) == IF s.id = 1 THEN {"pos"} ELSE IF s.id = 2 THEN {"pos", "foo"} ELSE {}

\* The value of attribute k of BeamState b.
BSAttr(b, k) == b.id * 10 + NameIx(k)

\* The value of attribute k read off a raw state: state 1 holds the value
\* its BeamState reports, state 2 holds it in another representation.
RawAttr(s, k) == IF s.id = 1 THEN s.id * 10 + NameIx(k) ELSE s.id * 10 + NameIx(k) + 5

\* hasattr(s, k)
HasAttr(s, k) == IF s.kind = "BeamState" THEN k \in Vocab ELSE k \in RawExposes(s)

\* getattr(s, k), defined where HasAttr(s, k).
GetAttr(s, k) == IF s.kind = "BeamState" THEN BSAttr(s, k) ELSE RawAttr(s, k)

\* Does BeamState(s) succeed?  rewrap: whether the constructor accepts a
\* state that is a BeamState already (not fixed by its contract).
CtorAccepts(s, rewrap) == IF s.kind = "BeamState" THEN rewrap ELSE s.id \in GoodRawIds

\* BeamState(s), defined where the constructor accepts s.
BeamState(s) == [kind |-> "BeamState", id |-> s.id]

\* Variant: np.array([l]), the list wrapped once more.
np_arrayNested(l) == [shape |-> 1, data |-> <<l>>]

\* np.array(l): a one-dimensional array holding the elements of list l.
np_array(l) == [shape |-> Len(l), data |-> l]

(***************************************************************************)
(* Values of the model.                                                    *)
(***************************************************************************)

\* An entry of a result: a (location, state) pair, or an entry that is not
\* a pair (unpacking it raises ValueError).
Entries == {<<l, s>> : l \in Locs, s \in States} \cup {<<"m1">>}

Results == UNION {[1..n -> Entries] : n \in 0..MaxLen}

KwSets == [Names -> KwVals]

NoKws == [k \in Names |-> "absent"]

IsPair(e) == Len(e) = 2

NoRet == [has |-> FALSE, val |-> <<>>]

Some(v) == [has |-> TRUE, val |-> v]

NoErr == [kind |-> "none", phase |-> "none"]

Range(s) == {s[j] : j \in 1..Len(s)}

Min(S) == CHOOSE x \in S : \A y \in S : x <= y

(***************************************************************************)
(* The functions of output.py as operators.                                *)
(***************************************************************************)

\* Variant: `if v` in place of `if v is not None`.
ValidKeysTruthy(kw) ==
    LET Kept(k) == kw[k] = "True"
    IN  SelectSeq(NameOrder, Kept)

\* Variant: every keyword passed is kept, whatever its value.
ValidKeysAll(kw) ==
    LET Kept(k) == kw[k] # "absent"
    IN  SelectSeq(NameOrder, Kept)

\* valid_keys = [k for k, v in kws.items() if v is not None]
ValidKeys(kw) ==
    LET Kept(k) == kw[k] # "absent" /\ kw[k] # "None"
    IN  SelectSeq(NameOrder, Kept)

\* Does `for (i, s) in ...: getattr(s, k)` raise at entry e?
Fails(e, k) == ~IsPair(e) \/ ~HasAttr(e[2], k)

\* The error raised at entry e: unpacking comes before the attribute access.
ErrKind(e, k) == IF ~IsPair(e) THEN "ValueError" ELSE "AttributeError"

\* Variant: the column is built back to front.
ColumnReversed(res, k) ==
    np_array([j \in 1..Len(res) |-> GetAttr(res[Len(res) + 1 - j][2], k)])

\* np.array([getattr(s, ik) for (i, s) in result]), where nothing raises.
Column(res, k) == np_array([j \in 1..Len(res) |-> GetAttr(res[j][2], k)])

\* {ik: np.array([getattr(s, ik) for (i, s) in result]) for ik in valid_keys}
\* ok: no access raised; val: the mapping; err: the first error raised;
\* reads: the getattr calls made; partial: the columns completed before err.
Extract(res, keys) ==
    LET N == Len(res)
        bad == {a \in 1..Len(keys) : \E j \in 1..N : Fails(res[j], keys[a])}
    IN  IF bad = {}
        THEN [ok |-> TRUE,
              val |-> [k \in Range(keys) |-> Column(res, k)],
              err |-> "none",
              reads |-> Len(keys) * N,
              partial |-> [k \in Range(keys) |-> Column(res, k)]]
        ELSE LET a == Min(bad)
                 j == Min({i \in 1..N : Fails(res[i], keys[a])})
             IN  [ok |-> FALSE,
                  val |-> <<>>,
                  err |-> ErrKind(res[j], keys[a]),
                  reads |-> (a - 1) * N + (j - 1) + (IF IsPair(res[j]) THEN 1 ELSE 0),
                  partial |-> [k \in {keys[b] : b \in 1..(a - 1)} |-> Column(res, k)]]

\* Variant: the converted pairs come out in reverse order.
convert_resultsReversed(res, kw, rewrap) ==
    LET N == Len(res)
        bad == {j \in 1..N : ~IsPair(res[j]) \/ ~CtorAccepts(res[j][2], rewrap)}
    IN  IF bad = {}
        THEN [ok |-> TRUE,
              val |-> [j \in 1..N |-> <<res[N + 1 - j][1], BeamState(res[N + 1 - j][2])>>],
              err |-> "none",
              calls |-> N]
        ELSE [ok |-> FALSE,
              val |-> <<>>,
              err |-> IF IsPair(res[Min(bad)]) THEN "ConstructorError" ELSE "ValueError",
              calls |-> (Min(bad) - 1) + (IF IsPair(res[Min(bad)]) THEN 1 ELSE 0)]

\* return [(i, BeamState(s)) for (i, s) in res]   (kw is accepted, unused)
\* calls: the constructor calls made.
convert_results(res, kw, rewrap) ==
    LET N == Len(res)
        bad == {j \in 1..N : ~IsPair(res[j]) \/ ~CtorAccepts(res[j][2], rewrap)}
    IN  IF bad = {}
        THEN [ok |-> TRUE,
              val |-> [j \in 1..N |-> <<res[j][1], BeamState(res[j][2])>>],
              err |-> "none",
              calls |-> N]
        ELSE LET j == Min(bad)
             IN  [ok |-> FALSE,
                  val |-> <<>>,
                  err |-> IF IsPair(res[j]) THEN "ConstructorError" ELSE "ValueError",
                  calls |-> (j - 1) + (IF IsPair(res[j]) THEN 1 ELSE 0)]

\* collect_data(result, **kw) as a function of its arguments: what the
\* caller gets back (ret) or sees raised (err).
collect_data(res, kw, rewrap) ==
    LET keys == ValidKeys(kw)
        d == Extract(res, keys)
    IN  IF d.ok
        THEN [ret |-> Some(d.val), err |-> NoErr]
        ELSE LET c == convert_results(res, NoKws, rewrap)
             IN  IF ~c.ok
                 THEN [ret |-> NoRet, err |-> [kind |-> c.err, phase |-> "normalize"]]
                 ELSE LET x == Extract(c.val, keys)
                      IN  IF x.ok
                          THEN [ret |-> Some(x.val), err |-> NoErr]
                          ELSE [ret |-> NoRet, err |-> [kind |-> x.err, phase |-> "second"]]

(***************************************************************************)
(* The calls as a state machine.                                           *)
(***************************************************************************)

VARIABLES
    pc,            \* "idle", "direct", "except", "second", "returned", "raised"
    op,            \* the function being called
    callerResult,  \* the caller's result sequence
    kws,           \* the keyword arguments of the call
    valid_keys,    \* collect_data's local valid_keys
    result,        \* collect_data's local name `result`
    ret,           \* what the call returned
    err,           \* the error the caller sees
    suppressed,    \* the errors caught by the bare except
    reads,         \* getattr calls made by the call
    nPass,         \* extraction passes started
    nConvert,      \* convert_results invocations made by collect_data
    nCtor          \* BeamState constructor calls made

vars == <<pc, op, callerResult, kws, valid_keys, result, ret, err, suppressed,
          reads, nPass, nConvert, nCtor>>

Init ==
    /\ pc = "idle"
    /\ op = "none"
    /\ callerResult = <<>>
    /\ kws = NoKws
    /\ valid_keys = <<>>
    /\ result = <<>>
    /\ ret = NoRet
    /\ err = NoErr
    /\ suppressed = <<>>
    /\ reads = 0
    /\ nPass = 0
    /\ nConvert = 0
    /\ nCtor = 0

\* A caller invokes convert_results(res, **kw): the whole function.
ConvertCall ==
    /\ pc = "idle"
    /\ \E res \in Results, kw \in KwSets, rewrap \in BOOLEAN :
         LET c == convert_results(res, kw, rewrap)
         IN  /\ op' = "convert_results"
             /\ callerResult' = res
             /\ kws' = kw
             /\ nCtor' = c.calls
             /\ IF c.ok
                THEN /\ ret' = Some(c.val)
                     /\ err' = NoErr
                     /\ pc' = "returned"
                ELSE /\ ret' = NoRet
                     /\ err' = [kind |-> c.err, phase |-> "normalize"]
                     /\ pc' = "raised"
    /\ UNCHANGED <<valid_keys, result, suppressed, reads, nPass, nConvert>>

\* Entry of collect_data(res, **kw): the arguments are bound and line 175
\* computes valid_keys.
Enter(res, kw) ==
    /\ op' = "collect_data"
    /\ callerResult' = res
    /\ kws' = kw
    /\ result' = res
    /\ valid_keys' = ValidKeys(kw)
    /\ pc' = "direct"
    /\ UNCHANGED <<ret, err, suppressed, reads, nPass, nConvert, nCtor>>

\* A caller invokes collect_data(res, **kw).
Call ==
    /\ pc = "idle"
    /\ \E res \in Results, kw \in KwSets : Enter(res, kw)

\* The results recorded at one location (collect_data never looks at it).
OneLocResults == {r \in Results : \A j \in 1..Len(r) : r[j][1] = "m1"}

\* A caller invokes collect_data on a result recorded at one location.
CallOneLoc ==
    /\ pc = "idle"
    /\ \E res \in OneLocResults, kw \in KwSets : Enter(res, kw)

\* The try block: the direct-access pass.
DirectPass ==
    /\ pc = "direct"
    /\ LET x == Extract(result, valid_keys)
       IN  /\ reads' = reads + x.reads
           /\ nPass' = nPass + 1
           /\ IF x.ok
              THEN /\ ret' = Some(x.val)
                   /\ pc' = "returned"
                   /\ UNCHANGED suppressed
              ELSE /\ suppressed' = Append(suppressed, [kind |-> x.err, phase |-> "direct"])
                   /\ pc' = "except"
                   /\ UNCHANGED ret
    /\ UNCHANGED <<op, callerResult, kws, valid_keys, result, err, nConvert, nCtor>>

\* Variant: the except block retries the extraction without normalizing.
NormalizeSkipped ==
    /\ pc = "except"
    /\ pc' = "second"
    /\ UNCHANGED <<op, callerResult, kws, valid_keys, result, ret, err, suppressed,
                   reads, nPass, nConvert, nCtor>>

\* Variant: the normalized pairs are written back into the caller's list.
NormalizeInPlace ==
    /\ pc = "except"
    /\ \E rewrap \in BOOLEAN :
         LET c == convert_results(result, NoKws, rewrap)
         IN  /\ nConvert' = nConvert + 1
             /\ nCtor' = nCtor + c.calls
             /\ IF c.ok
                THEN /\ result' = c.val
                     /\ callerResult' = c.val
                     /\ pc' = "second"
                     /\ UNCHANGED err
                ELSE /\ err' = [kind |-> c.err, phase |-> "normalize"]
                     /\ pc' = "raised"
                     /\ UNCHANGED <<result, callerResult>>
    /\ UNCHANGED <<op, kws, valid_keys, ret, suppressed, reads, nPass>>

\* The except block: result = convert_results(result)
Normalize ==
    /\ pc = "except"
    /\ \E rewrap \in BOOLEAN :
         LET c == convert_results(result, NoKws, rewrap)
         IN  /\ nConvert' = nConvert + 1
             /\ nCtor' = nCtor + c.calls
             /\ IF c.ok
                THEN /\ result' = c.val
                     /\ pc' = "second"
                     /\ UNCHANGED err
                ELSE /\ err' = [kind |-> c.err, phase |-> "normalize"]
                     /\ pc' = "raised"
                     /\ UNCHANGED result
    /\ UNCHANGED <<op, callerResult, kws, valid_keys, ret, suppressed, reads, nPass>>

\* Variant: the second pass iterates over every keyword passed.
SecondPassAllKeys ==
    /\ pc = "second"
    /\ LET x == Extract(result, ValidKeysAll(kws))
       IN  /\ reads' = reads + x.reads
           /\ nPass' = nPass + 1
           /\ IF x.ok
              THEN /\ ret' = Some(x.val)
                   /\ pc' = "returned"
                   /\ UNCHANGED err
              ELSE /\ err' = [kind |-> x.err, phase |-> "second"]
                   /\ pc' = "raised"
                   /\ UNCHANGED ret
    /\ UNCHANGED <<op, callerResult, kws, valid_keys, result, suppressed, nConvert, nCtor>>

\* Variant: the second pass is guarded too and yields an empty mapping.
SecondPassGuarded ==
    /\ pc = "second"
    /\ LET x == Extract(result, valid_keys)
       IN  /\ reads' = reads + x.reads
           /\ nPass' = nPass + 1
           /\ ret' = IF x.ok THEN Some(x.val) ELSE Some(<<>>)
           /\ pc' = "returned"
    /\ UNCHANGED <<op, callerResult, kws, valid_keys, result, err, suppressed, nConvert, nCtor>>

\* Variant: a failing second pass returns the columns built so far.
SecondPassPartial ==
    /\ pc = "second"
    /\ LET x == Extract(result, valid_keys)
       IN  /\ reads' = reads + x.reads
           /\ nPass' = nPass + 1
           /\ ret' = IF x.ok THEN Some(x.val) ELSE Some(x.partial)
           /\ pc' = "returned"
    /\ UNCHANGED <<op, callerResult, kws, valid_keys, result, err, suppressed, nConvert, nCtor>>

\* The except block: the extraction over the normalized sequence.
SecondPass ==
    /\ pc = "second"
    /\ LET x == Extract(result, valid_keys)
       IN  /\ reads' = reads + x.reads
           /\ nPass' = nPass + 1
           /\ IF x.ok
              THEN /\ ret' = Some(x.val)
                   /\ pc' = "returned"
                   /\ UNCHANGED err
              ELSE /\ err' = [kind |-> x.err, phase |-> "second"]
                   /\ pc' = "raised"
                   /\ UNCHANGED ret
    /\ UNCHANGED <<op, callerResult, kws, valid_keys, result, suppressed, nConvert, nCtor>>

\* The caller has consumed the outcome; the transient values are gone.
Finish ==
    /\ pc \in {"returned", "raised"}
    /\ pc' = "idle"
    /\ op' = "none"
    /\ callerResult' = <<>>
    /\ kws' = NoKws
    /\ valid_keys' = <<>>
    /\ result' = <<>>
    /\ ret' = NoRet
    /\ err' = NoErr
    /\ suppressed' = <<>>
    /\ reads' = 0
    /\ nPass' = 0
    /\ nConvert' = 0
    /\ nCtor' = 0

Next ==
    \/ ConvertCall
    \/ Call
    \/ DirectPass
    \/ Normalize
    \/ SecondPass
    \/ Finish

Spec == Init /\ [][Next]_vars

CollectNext ==
    \/ CallOneLoc
    \/ DirectPass
    \/ Normalize
    \/ SecondPass
    \/ Finish

\* A call is synchronous: once entered it runs to completion or raises.
FairSpec ==
    /\ Init
    /\ [][CollectNext]_vars
    /\ WF_vars(DirectPass)
    /\ WF_vars(Normalize)
    /\ WF_vars(SecondPass)

Terminal == pc \in {"returned", "raised"}

TypeOK ==
    /\ pc \in {"idle", "direct", "except", "second", "returned", "raised"}
    /\ op \in {"none", "collect_data", "convert_results"}
    /\ Len(callerResult) <= MaxLen
    /\ kws \in KwSets
    /\ ret.has \in BOOLEAN
    /\ nPass \in 0..2

(***************************************************************************)
(* Vocabulary of the properties.                                           *)
(***************************************************************************)

\* Every entry is a pair holding a raw state the constructor accepts.
AllRawOK(res) ==
    \A j \in 1..Len(res) :
        IsPair(res[j]) /\ res[j][2].kind = "raw" /\ res[j][2].id \in GoodRawIds

\* Every entry is a pair holding a BeamState.
AllNormalized(res) ==
    \A j \in 1..Len(res) : IsPair(res[j]) /\ res[j][2].kind = "BeamState"

\* Some access of a pass over res for the names in keys raises.
PassRaises(res, keys) ==
    \E a \in 1..Len(keys), j \in 1..Len(res) :
        ~IsPair(res[j]) \/ ~HasAttr(res[j][2], keys[a])

\* The names supplied with a value other than None.
Requested(kw) == {k \in Names : kw[k] \in {"True", "False"}}

\* The names supplied with a truthy value.
Truthy(kw) == {k \in Names : kw[k] = "True"}

SameRet(a, b) == a.has = b.has /\ (a.has => a.val = b.val)

InCollect == op = "collect_data"

(***************************************************************************)
(* C1. collect_data on raw, constructor-compatible entries returns what    *)
(* collect_data on the manually normalized entries returns.                *)
(***************************************************************************)

\* C1 as stated: for every request set, also when the raw states expose
\* the requested names themselves, both calls give the same mapping.
C1_Original ==
    (InCollect /\ Terminal /\ AllRawOK(callerResult)) =>
        \A rw \in BOOLEAN :
            SameRet(ret, collect_data(convert_results(callerResult, NoKws, rw).val, kws, rw).ret)

\* C1 amended: the two calls give the same mapping whenever the direct pass
\* over the raw entries raises or reads nothing.
C1_FallbackAgrees ==
    (/\ InCollect
     /\ Terminal
     /\ AllRawOK(callerResult)
     /\ \/ PassRaises(callerResult, ValidKeys(kws))
        \/ callerResult = <<>>
        \/ Requested(kws) = {}) =>
        \A rw \in BOOLEAN :
            SameRet(ret, collect_data(convert_results(callerResult, NoKws, rw).val, kws, rw).ret)

C1_Witness ==
    /\ InCollect
    /\ pc = "returned"
    /\ AllRawOK(callerResult)
    /\ Len(callerResult) = 2
    /\ nPass = 2
    /\ Cardinality(Requested(kws)) = 2
    /\ \E k \in Names : kws[k] = "None"

(***************************************************************************)
(* C2. What a false-like keyword value requests.                           *)
(***************************************************************************)

\* C2 as stated: the keys of the returned mapping are the names supplied
\* with a truthy value; a name supplied as False is never a key.
C2_Original ==
    (InCollect /\ pc = "returned") => DOMAIN ret.val = Truthy(kws)

\* C2 amended: the keys of the returned mapping are the names supplied with
\* a value other than None; a name supplied as False is a key.
C2_FalseIsRequested ==
    (InCollect /\ pc = "returned") =>
        /\ DOMAIN ret.val = Requested(kws)
        /\ \A k \in Names : kws[k] = "False" => k \in DOMAIN ret.val

C2_Witness ==
    /\ InCollect
    /\ pc = "returned"
    /\ callerResult # <<>>
    /\ \E k \in Names : kws[k] = "False" /\ k \in DOMAIN ret.val
    /\ \E k \in Names : kws[k] = "True"

(***************************************************************************)
(* C3. On a normalized result a successful call returns one array per name *)
(* supplied with a non-None value, of the input's length, in input order.  *)
(***************************************************************************)

\* C3: keys = non-None names; array k has length N and its j-th element is
\* attribute k of the j-th state.
C3_NormalizedColumns ==
    (InCollect /\ pc = "returned" /\ AllNormalized(callerResult)) =>
        /\ DOMAIN ret.val = Requested(kws)
        /\ \A k \in DOMAIN ret.val :
            /\ ret.val[k].shape = Len(callerResult)
            /\ Len(ret.val[k].data) = Len(callerResult)
            /\ \A j \in 1..Len(callerResult) :
                   ret.val[k].data[j] = BSAttr(callerResult[j][2], k)

C3_Witness ==
    /\ InCollect
    /\ pc = "returned"
    /\ AllNormalized(callerResult)
    /\ Len(callerResult) = 2
    /\ callerResult[1][2] # callerResult[2][2]
    /\ \E k \in Names : kws[k] = "None"
    /\ \E k \in Names : kws[k] = "True"

(***************************************************************************)
(* C4. convert_results keeps length, order and locations and wraps every   *)
(* raw state; keyword options do not matter.                               *)
(***************************************************************************)

\* C4: on N pairs of accepted raw states, whatever the keywords, the call
\* returns N pairs, the j-th being (j-th location, BeamState(j-th state)).
C4_ConvertPointwise ==
    (op = "convert_results" /\ Terminal /\ AllRawOK(callerResult)) =>
        /\ pc = "returned"
        /\ Len(ret.val) = Len(callerResult)
        /\ \A j \in 1..Len(callerResult) :
               /\ ret.val[j][1] = callerResult[j][1]
               /\ ret.val[j][2] = BeamState(callerResult[j][2])

C4_Witness ==
    /\ op = "convert_results"
    /\ pc = "returned"
    /\ AllRawOK(callerResult)
    /\ Len(callerResult) = 2
    /\ callerResult[1][1] # callerResult[2][1]
    /\ callerResult[1][2] # callerResult[2][2]
    /\ kws # NoKws

(***************************************************************************)
(* C5. A requested name outside BeamState's vocabulary.                    *)
(***************************************************************************)

\* C5 as stated: whenever such a name is requested the call fails with the
\* attribute error of the second pass.
C5_Original ==
    (InCollect /\ Terminal /\ Requested(kws) \ Vocab # {}) =>
        /\ pc = "raised"
        /\ err = [kind |-> "AttributeError", phase |-> "second"]

\* C5 amended: when such a name is requested and the direct pass raises,
\* the call fails: with the attribute error of the second pass when the
\* normalization succeeded, else with the error of the normalization.
C5_UnknownNameFails ==
    (/\ InCollect
     /\ Terminal
     /\ Requested(kws) \ Vocab # {}
     /\ PassRaises(callerResult, ValidKeys(kws))) =>
        /\ pc = "raised"
        /\ ~ret.has
        /\ IF nPass = 2
           THEN err = [kind |-> "AttributeError", phase |-> "second"]
           ELSE err.phase = "normalize" /\ err.kind \in {"ConstructorError", "ValueError"}

C5_Witness ==
    /\ InCollect
    /\ pc = "raised"
    /\ kws["foo"] = "True"
    /\ AllRawOK(callerResult)
    /\ callerResult # <<>>
    /\ err = [kind |-> "AttributeError", phase |-> "second"]

(***************************************************************************)
(* C6. A call that fails returns nothing; only the error of the direct     *)
(* pass is suppressed.                                                     *)
(***************************************************************************)

\* C6: when the direct pass raises and then the normalization or the second
\* pass raises, that error reaches the caller and nothing is returned; the
\* only error ever caught is the one of the direct pass.
C6_FailsAtomically ==
    InCollect =>
        /\ Len(suppressed) <= 1
        /\ \A i \in 1..Len(suppressed) : suppressed[i].phase = "direct"
        /\ (suppressed # <<>>) = (nPass >= 1 /\ PassRaises(callerResult, valid_keys))
        /\ (Terminal /\ nPass = 1 /\ suppressed # <<>>) =>
               /\ pc = "raised"
               /\ ~ret.has
               /\ err.phase = "normalize"
               /\ err.kind \in {"ConstructorError", "ValueError"}
        /\ (Terminal /\ nPass = 2 /\ PassRaises(result, valid_keys)) =>
               /\ pc = "raised"
               /\ ~ret.has
               /\ err.phase = "second"
               /\ err.kind \in {"AttributeError", "ValueError"}
        /\ (pc = "returned") => (ret.has /\ err = NoErr /\ DOMAIN ret.val = Range(valid_keys))
        /\ (pc = "raised") => (~ret.has /\ err # NoErr)

C6_Witness ==
    /\ InCollect
    /\ pc = "raised"
    /\ err.phase = "second"
    /\ Len(valid_keys) = 2
    /\ valid_keys[1] \in Vocab
    /\ callerResult # <<>>

(***************************************************************************)
(* C7. An empty request set.                                               *)
(***************************************************************************)

\* C7: with no name supplied, or every name supplied as None, the call
\* returns the empty mapping, reads no attribute, and calls neither
\* convert_results nor the constructor, whatever the result holds.
C7_EmptyRequest ==
    (InCollect /\ Terminal /\ \A k \in Names : kws[k] \in {"absent", "None"}) =>
        /\ pc = "returned"
        /\ ret.has
        /\ DOMAIN ret.val = {}
        /\ reads = 0
        /\ nConvert = 0
        /\ nCtor = 0
        /\ suppressed = <<>>

C7_Witness ==
    /\ InCollect
    /\ pc = "returned"
    /\ \A k \in Names : kws[k] \in {"absent", "None"}
    /\ \E k \in Names : kws[k] = "None"
    /\ \E j \in 1..Len(callerResult) : ~IsPair(callerResult[j])
    /\ \E j \in 1..Len(callerResult) :
           IsPair(callerResult[j]) /\ callerResult[j][2].kind = "raw"

(***************************************************************************)
(* C8. An empty result.                                                    *)
(***************************************************************************)

\* C8: on the empty sequence the call never raises; the direct pass returns
\* one empty array per non-None name and nothing is normalized.
C8_EmptyResult ==
    (InCollect /\ callerResult = <<>>) =>
        /\ pc \in {"direct", "returned"}
        /\ nConvert = 0
        /\ suppressed = <<>>
        /\ (pc = "returned") =>
               /\ nPass = 1
               /\ DOMAIN ret.val = Requested(kws)
               /\ \A k \in DOMAIN ret.val :
                      ret.val[k].shape = 0 /\ ret.val[k].data = <<>>

C8_Witness ==
    /\ InCollect
    /\ callerResult = <<>>
    /\ pc = "returned"
    /\ kws["foo"] = "True"
    /\ kws["x0"] = "False"

(***************************************************************************)
(* C9. The two-phase protocol.                                             *)
(***************************************************************************)

C9_Inv ==
    InCollect =>
        /\ nConvert <= 1
        /\ nPass <= 2
        /\ (pc = "direct") => (nPass = 0 /\ nConvert = 0)
        /\ (nConvert = 1) => (nPass >= 1 /\ Len(suppressed) = 1)
        /\ (pc = "except") => (nPass = 1 /\ nConvert = 0 /\ Len(suppressed) = 1)
        /\ (pc = "second") =>
               /\ nPass = 1
               /\ nConvert = 1
               /\ AllNormalized(result)
               /\ Len(result) = Len(callerResult)
        /\ (nPass = 2) => (Terminal /\ nConvert = 1 /\ AllNormalized(result))

\* C9: convert_results runs at most once and only after the direct pass
\* raised, at most two passes are made, the second pass reads a fully
\* normalized sequence, and every call ends by returning or raising.
C9_TwoPhase == [](C9_Inv) /\ ((pc = "direct") ~> Terminal)

C9_Witness ==
    /\ InCollect
    /\ pc = "returned"
    /\ nPass = 2
    /\ nConvert = 1
    /\ Len(callerResult) = 2

(***************************************************************************)
(* C10. The caller's sequence is left alone.                               *)
(***************************************************************************)

\* C10: from the call to its end, however it ends, the caller's sequence
\* keeps its length and its pairs in their order.
C10_InputUnchanged ==
    [][(pc # "idle" /\ pc' # "idle") => callerResult' = callerResult]_vars

C10_Witness ==
    /\ InCollect
    /\ pc = "returned"
    /\ nConvert = 1
    /\ callerResult # <<>>
    /\ result # callerResult
    /\ AllRawOK(callerResult)

====
